---- MODULE Spec2Model ----
(***************************************************************************)
(* Budget / dayparting admission control of kevklash/budget_system.        *)
(*                                                                         *)
(* The database rows (Brand, Campaign, SpendLog, DaypartingSchedule) are   *)
(* the shared state.  Every ORM call that reaches the database (a query    *)
(* being evaluated, a save) is one atomic step; what a task holds between  *)
(* two such steps (the rows a QuerySet loaded, its local lists) is the     *)
(* task's local state.  Money is counted in whole units of the smallest    *)
(* amount (DecimalField, two places).                                      *)
(***************************************************************************)
EXTENDS Integers, Sequences, FiniteSets, TLC

\* ------------------------------------------------------------------ bounds
MaxLogs == 2        \* rows the SpendLog table may hold
MaxAmount == 1      \* largest amount passed to record_spend
DayLen == 3         \* instants of the time of day: 0 .. DayLen-1
MaxResaves == 1     \* saves of SpendLog rows that exist already

\* ------------------------------------------------------------- the fixture
Brands == {"b1", "b2"}
\* Brand.Meta.ordering = ['name']
BrandOrder == <<"b1", "b2">>
Campaigns == {"c1", "c2", "c3"}
\* Campaign.Meta.ordering = ['name']
CampaignOrder == <<"c1", "c2", "c3">>
\* Campaign.brand
brand_of == [c \in Campaigns |-> IF c = "c3" THEN "b2" ELSE "b1"]
\* Brand.daily_budget, Brand.monthly_budget
daily_budget == [b \in Brands |-> IF b = "b1" THEN MaxAmount + 1 ELSE MaxAmount]
monthly_budget == [b \in Brands |-> IF b = "b1" THEN MaxAmount + 2 ELSE MaxAmount]
\* DaypartingSchedule rows: c1 has a same-day window, c3 an overnight one,
\* c2 has no schedule.
Scheduled == {"c1", "c3"}
\* a slip: the first schedule attached to the campaign that has none
dayparting_schedule_misattached ==
    [c \in Scheduled |->
        IF c = "c1" THEN [campaign |-> "c2", start_time |-> 0, end_time |-> 1]
                    ELSE [campaign |-> c, start_time |-> DayLen - 1, end_time |-> 0]]

dayparting_schedule ==
    [c \in Scheduled |->
        IF c = "c1" THEN [campaign |-> c, start_time |-> 0, end_time |-> 1]
                    ELSE [campaign |-> c, start_time |-> DayLen - 1, end_time |-> 0]]

Times == 0 .. (DayLen - 1)
\* days of the month: 1 is the first day, 2 stands for every other day
Days == {1, 2}
Amounts == (0 - 1) .. MaxAmount
Callers == {"r1", "r2"}
\* values of DaypartingSchedule.timezone: the default, and a zone whose wall
\* clock is one instant ahead of it
Timezones == {"UTC", "Etc/GMT-1"}
utcoffset == [tz \in Timezones |-> IF tz = "UTC" THEN 0 ELSE 1]

\* ---------------------------------------------------------------- helpers
Range(s) == {s[i] : i \in 1 .. Len(s)}

RECURSIVE SelectSeqOf(_, _)
\* the members of the ordered list s that are in the set S, in s's order
SelectSeqOf(s, S) ==
    IF s = <<>> THEN <<>>
    ELSE IF Head(s) \in S THEN <<Head(s)>> \o SelectSeqOf(Tail(s), S)
         ELSE SelectSeqOf(Tail(s), S)

\* every order in which the rows of S can come back from an unordered query
Orderings(S) ==
    {s \in [1 .. Cardinality(S) -> S] : \A i, j \in DOMAIN s : i # j => s[i] # s[j]}

VARIABLES
    current_daily_spend,    \* Brand.current_daily_spend, per brand
    current_monthly_spend,  \* Brand.current_monthly_spend, per brand
    is_active,              \* Campaign.is_active, per campaign
    spend_logs,             \* the SpendLog table, in insertion order
    resaves,                \* saves of SpendLog rows that existed already
    now,                    \* timezone.now().time()
    day,                    \* timezone.now().date().day
    call,                   \* record_spend calls in flight, per caller
    eb,                     \* enforce_budgets
    ed,                     \* enforce_dayparting
    rs,                     \* reset_daily_monthly_spends
    cu,                     \* check_and_update_campaign_status
    workers,                \* operations the deployment lets run at the same time
    log_notes,              \* history, per SpendLog row: was the receiver's save done
                            \* (applied), and was the row inserted after its brand's
                            \* last daily (in_day) and monthly (in_month) reset
    pre_active,             \* history: is_active when the running job started
    last_run,               \* history: the job that returned last, with no spend
                            \* recorded, no time passed and no other operation
                            \* since ("none" otherwise)
    svc                     \* the call of a services.py status function in
                            \* progress, or what the last one returned

vars == <<current_daily_spend, current_monthly_spend, is_active, spend_logs, resaves, now, day,
          call, eb, ed, rs, cu, workers, log_notes, pre_active, last_run, svc>>

db == <<current_daily_spend, current_monthly_spend, is_active, spend_logs, resaves>>
clock == <<now, day>>
history == <<workers, log_notes, pre_active>>

\* the operations that have begun and not returned; the tasks that
\* check_and_update_campaign_status calls run as part of it
Running ==
    {p \in Callers : call[p].pc # "idle"}
        \cup (IF rs.pc # "idle" THEN {"rs"} ELSE {})
        \cup (IF svc.pc # "idle" THEN {"svc"} ELSE {})
        \cup (IF cu.pc # "idle" THEN {"cu"}
              ELSE (IF eb.pc # "idle" THEN {"eb"} ELSE {})
                       \cup (IF ed.pc # "idle" THEN {"ed"} ELSE {}))

\* a worker is free to take one more operation
Admit == Cardinality(Running) < workers

\* ------------------------------------------------------------ models.py
\* a Brand instance as loaded from its row
LoadBrand(b) ==
    [name |-> b,
     daily_budget |-> daily_budget[b],
     monthly_budget |-> monthly_budget[b],
     current_daily_spend |-> current_daily_spend[b],
     current_monthly_spend |-> current_monthly_spend[b]]

\* a slip: > where the property has >=
is_daily_budget_exceeded_strict(brand) ==
    brand.current_daily_spend > brand.daily_budget

is_daily_budget_exceeded(brand) ==
    brand.current_daily_spend >= brand.daily_budget

is_monthly_budget_exceeded(brand) ==
    brand.current_monthly_spend >= brand.monthly_budget

\* a slip: the end of the same-day window left out of it
is_active_now_exclusive(schedule, t) ==
    IF schedule.start_time <= schedule.end_time
    THEN schedule.start_time <= t /\ t < schedule.end_time
    ELSE t >= schedule.start_time \/ t <= schedule.end_time

\* DaypartingSchedule.is_active_now, t being timezone.now().time()
is_active_now(schedule, t) ==
    IF schedule.start_time <= schedule.end_time
    THEN schedule.start_time <= t /\ t <= schedule.end_time
    ELSE t >= schedule.start_time \/ t <= schedule.end_time

\* a slip: = where the receiver has +=
update_brand_spend_assign(created, brand, amount) ==
    IF created
    THEN [brand EXCEPT !.current_daily_spend = amount,
                       !.current_monthly_spend = amount]
    ELSE brand

\* a slip: the receiver without its `if created` test
update_brand_spend_always(created, brand, amount) ==
    [brand EXCEPT !.current_daily_spend = @ + amount,
                  !.current_monthly_spend = @ + amount]

\* the post_save receiver of SpendLog: the brand instance it leaves, given
\* the instance instance.campaign.brand evaluated to
update_brand_spend(created, brand, amount) ==
    IF created
    THEN [brand EXCEPT !.current_daily_spend = @ + amount,
                       !.current_monthly_spend = @ + amount]
    ELSE brand

\* brand.save(update_fields=['current_daily_spend', 'current_monthly_spend'])
SaveBrandSpends(brand) ==
    /\ current_daily_spend' =
           [current_daily_spend EXCEPT ![brand.name] = brand.current_daily_spend]
    /\ current_monthly_spend' =
           [current_monthly_spend EXCEPT ![brand.name] = brand.current_monthly_spend]

\* ------------------------------------------------------------------- Init
NoCall == [pc |-> "idle"]
EbIdle == [pc |-> "idle"]
EdIdle == [pc |-> "idle"]
RsIdle == [pc |-> "idle"]
CuIdle == [pc |-> "idle"]
SvcIdle == [pc |-> "idle"]

Init ==
    /\ current_daily_spend = [b \in Brands |-> 0]
    /\ current_monthly_spend = [b \in Brands |-> 0]
    /\ is_active \in [Campaigns -> BOOLEAN]
    /\ spend_logs = <<>>
    /\ resaves = 0
    /\ now \in Times
    /\ day \in Days
    /\ call = [p \in Callers |-> NoCall]
    /\ eb = EbIdle
    /\ ed = EdIdle
    /\ rs = RsIdle
    /\ cu = CuIdle
    /\ log_notes = <<>>
    /\ pre_active = is_active
    /\ workers \in {1, Cardinality(Callers) + 3}
    /\ last_run = "none"
    /\ svc = SvcIdle

\* ------------------------------------------- BudgetService.record_spend
\* SpendLog.objects.create(...): the row is inserted (and committed: no
\* transaction is opened), then post_save runs the receiver.
RecordSpend(p, c, amount) ==
    /\ call[p].pc = "idle"
    /\ Admit
    /\ Len(spend_logs) < MaxLogs
    /\ spend_logs' = Append(spend_logs, [campaign |-> c, amount |-> amount])
    /\ log_notes' = Append(log_notes, [applied |-> FALSE, in_day |-> TRUE, in_month |-> TRUE])
    /\ call' = [call EXCEPT ![p] = [pc |-> "created", log |-> Len(spend_logs) + 1]]
    /\ last_run' = "none"
    /\ UNCHANGED <<svc, current_daily_spend, current_monthly_spend, is_active, resaves, clock,
                   eb, ed, rs, cu, workers, pre_active>>

\* the receiver, created = True: brand = instance.campaign.brand loads the row
FetchBrand(p) ==
    /\ call[p].pc = "created"
    /\ call' = [call EXCEPT ![p] =
                   [pc |-> "fetched", log |-> call[p].log,
                    brand |-> LoadBrand(brand_of[spend_logs[call[p].log].campaign])]]
    /\ UNCHANGED <<svc, last_run, db, clock, eb, ed, rs, cu, history>>

\* the receiver: the two += and brand.save(update_fields=...); record_spend returns
SaveBrand(p) ==
    /\ call[p].pc = "fetched"
    /\ SaveBrandSpends(update_brand_spend(TRUE, call[p].brand, spend_logs[call[p].log].amount))
    /\ log_notes' = [log_notes EXCEPT ![call[p].log].applied = TRUE]
    /\ call' = [call EXCEPT ![p] = NoCall]
    /\ UNCHANGED <<svc, last_run, is_active, spend_logs, resaves, clock, eb, ed, rs, cu, workers, pre_active>>

\* record_spend is interrupted after the insert: the process dies, or the
\* brand query or brand.save raises
Crash(p) ==
    /\ call[p].pc \in {"created", "fetched"}
    /\ call' = [call EXCEPT ![p] = NoCall]
    /\ UNCHANGED <<svc, last_run, db, clock, eb, ed, rs, cu, history>>

\* an existing SpendLog is saved again with its fields as they are: post_save
\* runs the receiver with created = False
ResaveLog(i) ==
    /\ i \in DOMAIN spend_logs
    /\ Admit
    /\ resaves < MaxResaves
    /\ resaves' = resaves + 1
    /\ SaveBrandSpends(update_brand_spend(FALSE, LoadBrand(brand_of[spend_logs[i].campaign]),
                                          spend_logs[i].amount))
    /\ UNCHANGED <<svc, last_run, is_active, spend_logs, clock, call, eb, ed, rs, cu, history>>

\* ------------------------------------------------ tasks.enforce_budgets
\* a slip: the monthly half of the test left out
budget_exceeded_daily_only(brand) ==
    is_daily_budget_exceeded(brand)

\* line 19: the test that sends a brand's campaigns to be paused
budget_exceeded(brand) ==
    is_daily_budget_exceeded(brand) \/ is_monthly_budget_exceeded(brand)

\* Campaign.objects.filter(brand=brand, is_active=True), evaluated now
ActiveCampaignsOf(b) ==
    SelectSeqOf(CampaignOrder, {c \in Campaigns : brand_of[c] = b /\ is_active[c]})

\* the for loop over brands moves to the next brand, or leaves the loop
EbAdvance(e) ==
    IF e.bi + 1 > Len(BrandOrder)
    THEN [e EXCEPT !.pc = "done", !.bi = @ + 1, !.active_campaigns = <<>>]
    ELSE [e EXCEPT !.pc = "brands", !.bi = @ + 1, !.active_campaigns = <<>>]

\* `for brand in brands` evaluates Brand.objects.all(): every brand row is loaded
EbBegin ==
    /\ eb' = [pc |-> "brands",
              brands |-> [b \in Brands |-> LoadBrand(b)],
              bi |-> 1,
              active_campaigns |-> <<>>,
              paused_campaigns |-> <<>>,
              again |-> last_run = "eb"]
    /\ pre_active' = is_active

EBStart ==
    /\ eb.pc = "idle"
    /\ cu.pc = "idle"
    /\ Admit
    /\ EbBegin
    /\ UNCHANGED <<svc, last_run, db, clock, call, ed, rs, cu, workers, log_notes>>

\* one brand of the loop: the budget test on the loaded row, then the query
\* for its active campaigns
EBBrand ==
    /\ eb.pc = "brands"
    /\ LET b == BrandOrder[eb.bi]
           found == IF budget_exceeded(eb.brands[b]) THEN ActiveCampaignsOf(b) ELSE <<>>
       IN  eb' = IF found = <<>>
                 THEN EbAdvance(eb)
                 ELSE [eb EXCEPT !.pc = "campaigns", !.active_campaigns = found]
    /\ UNCHANGED <<svc, last_run, db, clock, call, ed, rs, cu, history>>

\* campaign.is_active = False; campaign.save(update_fields=['is_active']); append
EBSave ==
    /\ eb.pc = "campaigns"
    /\ LET c == Head(eb.active_campaigns)
           e == [eb EXCEPT !.paused_campaigns = Append(@, <<c, BrandOrder[eb.bi]>>),
                           !.active_campaigns = Tail(@)]
       IN  /\ is_active' = [is_active EXCEPT ![c] = FALSE]
           /\ eb' = IF e.active_campaigns = <<>> THEN EbAdvance(e) ELSE e
    /\ UNCHANGED <<svc, last_run, current_daily_spend, current_monthly_spend, spend_logs, resaves,
                   clock, call, ed, rs, cu, history>>

\* campaign.save raises (the database refuses the write): nothing in the task
\* catches it, the exception leaves the loops
EBSaveRaises ==
    /\ eb.pc = "campaigns"
    /\ eb' = [eb EXCEPT !.pc = "raised"]
    /\ UNCHANGED <<svc, last_run, db, clock, call, ed, rs, cu, history>>

\* the task returns its summary, or the exception leaves it
EBReturn ==
    /\ eb.pc \in {"done", "raised"}
    /\ cu.pc = "idle"
    /\ eb' = EbIdle
    /\ pre_active' = is_active
    /\ last_run' = "eb"
    /\ UNCHANGED <<svc, db, clock, call, ed, rs, cu, workers, log_notes>>

\* --------------------------------------------- tasks.enforce_dayparting
\* a slip: the activation branch without its budget test
dayparting_decision_unchecked(should_be_active, campaign_is_active, brand) ==
    IF should_be_active /\ ~campaign_is_active THEN "activate"
    ELSE IF ~should_be_active /\ campaign_is_active THEN "deactivate" ELSE "none"

\* a slip: the deactivation branch left out
dayparting_decision_activate_only(should_be_active, campaign_is_active, brand) ==
    IF should_be_active /\ ~campaign_is_active
    THEN IF ~is_daily_budget_exceeded(brand) /\ ~is_monthly_budget_exceeded(brand)
         THEN "activate" ELSE "none"
    ELSE "none"

\* lines 49-59: what one pass of the loop does with a schedule's campaign
dayparting_decision(should_be_active, campaign_is_active, brand) ==
    IF should_be_active /\ ~campaign_is_active
    THEN IF ~is_daily_budget_exceeded(brand) /\ ~is_monthly_budget_exceeded(brand)
         THEN "activate" ELSE "none"
    ELSE IF ~should_be_active /\ campaign_is_active THEN "deactivate" ELSE "none"

\* `for schedule in schedules` evaluates the select_related query: each schedule
\* comes with its campaign row and that campaign's brand row, in no stated order
EdBegin ==
    /\ \E order \in Orderings(Scheduled) :
           ed' = [pc |-> "schedules",
                  schedules |-> [i \in DOMAIN order |->
                                    [schedule |-> dayparting_schedule[order[i]],
                                     is_active |-> is_active[order[i]],
                                     brand |-> LoadBrand(brand_of[order[i]])]],
                  brand |-> "unbound",
                  activated_campaigns |-> <<>>,
                  deactivated_campaigns |-> <<>>,
                  again |-> last_run = "ed"]
    /\ pre_active' = is_active

EDStart ==
    /\ ed.pc = "idle"
    /\ cu.pc = "idle"
    /\ Admit
    /\ EdBegin
    /\ UNCHANGED <<svc, last_run, db, clock, call, eb, rs, cu, workers, log_notes>>

\* one pass of the loop.  The local `brand` is bound only in the activation
\* branch (line 51); the deactivation branch reads it at line 59, after the save.
EDSchedule ==
    /\ ed.pc = "schedules"
    /\ LET row == Head(ed.schedules)
           c == row.schedule.campaign
           should_be_active == is_active_now(row.schedule, now)
           decision == dayparting_decision(should_be_active, row.is_active, row.brand)
           bound == IF should_be_active /\ ~row.is_active THEN row.brand.name ELSE ed.brand
           rest == Tail(ed.schedules)
           pc2 == IF decision = "deactivate" /\ bound = "unbound" THEN "raised"
                  ELSE IF rest = <<>> THEN "done" ELSE "schedules"
       IN  /\ is_active' = IF decision = "activate" THEN [is_active EXCEPT ![c] = TRUE]
                           ELSE IF decision = "deactivate" THEN [is_active EXCEPT ![c] = FALSE]
                           ELSE is_active
           /\ ed' = [ed EXCEPT
                       !.pc = pc2,
                       !.schedules = rest,
                       !.brand = bound,
                       !.activated_campaigns =
                           IF decision = "activate" THEN Append(@, <<c, bound>>) ELSE @,
                       !.deactivated_campaigns =
                           IF decision = "deactivate" /\ bound # "unbound"
                           THEN Append(@, <<c, bound>>) ELSE @]
    /\ UNCHANGED <<svc, last_run, current_daily_spend, current_monthly_spend, spend_logs, resaves,
                   clock, call, eb, rs, cu, history>>

\* the task returns its summary, or the exception leaves it
EDReturn ==
    /\ ed.pc \in {"done", "raised"}
    /\ cu.pc = "idle"
    /\ ed' = EdIdle
    /\ pre_active' = is_active
    /\ last_run' = "ed"
    /\ UNCHANGED <<svc, db, clock, call, eb, rs, cu, workers, log_notes>>

\* ------------------------------------- tasks.reset_daily_monthly_spends
\* a slip: the daily counter left as it was loaded
reset_brand_monthly_only(brand, today_day) ==
    [brand EXCEPT !.current_monthly_spend = IF today_day = 1 THEN 0 ELSE @]

\* lines 83-87: the brand instance after the two assignments
reset_brand(brand, today_day) ==
    [brand EXCEPT !.current_daily_spend = 0,
                  !.current_monthly_spend = IF today_day = 1 THEN 0 ELSE @]

\* a slip: the reactivation loop without its dayparting test
reset_reactivates_any_time(brand, has_schedule, in_window) ==
    ~(is_daily_budget_exceeded(brand) \/ is_monthly_budget_exceeded(brand))

\* lines 98-104: the two `continue` tests of the reactivation loop
reset_reactivates(brand, has_schedule, in_window) ==
    /\ ~(is_daily_budget_exceeded(brand) \/ is_monthly_budget_exceeded(brand))
    /\ ~(has_schedule /\ ~in_window)

\* hasattr(campaign, 'dayparting_schedule')
HasSchedule(c) == c \in Scheduled

\* campaign.dayparting_schedule.is_active_now(), for a campaign that has one
InWindow(c) == is_active_now(dayparting_schedule[c], now)

\* today is read, and `for brand in brands` loads every brand row
RSStart ==
    /\ rs.pc = "idle"
    /\ Admit
    /\ rs' = [pc |-> "reset",
              today_day |-> day,
              brands |-> [b \in Brands |-> LoadBrand(b)],
              bi |-> 1,
              inactive_campaigns |-> <<>>,
              reactivated_campaigns |-> <<>>,
              again |-> last_run = "rs"]
    /\ pre_active' = is_active
    /\ UNCHANGED <<svc, last_run, db, clock, call, eb, ed, cu, workers, log_notes>>

\* one brand of the reset loop: both fields of the loaded instance are written
RSSaveBrand ==
    /\ rs.pc = "reset"
    /\ rs.bi <= Len(BrandOrder)
    /\ LET b == BrandOrder[rs.bi]
       IN  /\ SaveBrandSpends(reset_brand(rs.brands[b], rs.today_day))
           /\ log_notes' =
                  [i \in DOMAIN log_notes |->
                      IF brand_of[spend_logs[i].campaign] = b
                      THEN [log_notes[i] EXCEPT !.in_day = FALSE,
                                                !.in_month = @ /\ rs.today_day # 1]
                      ELSE log_notes[i]]
    /\ rs' = [rs EXCEPT !.bi = @ + 1]
    /\ UNCHANGED <<svc, last_run, is_active, spend_logs, resaves, clock, call, eb, ed, cu, workers, pre_active>>

\* Campaign.objects.filter(is_active=False).select_related('brand'), evaluated
\* by the second for loop: each inactive campaign with its brand row
RSQuery ==
    /\ rs.pc = "reset"
    /\ rs.bi > Len(BrandOrder)
    /\ LET found == SelectSeqOf(CampaignOrder, {c \in Campaigns : ~is_active[c]})
           rows == [i \in DOMAIN found |->
                       [campaign |-> found[i], brand |-> LoadBrand(brand_of[found[i]])]]
       IN  rs' = [rs EXCEPT !.pc = IF rows = <<>> THEN "done" ELSE "reactivate",
                            !.inactive_campaigns = rows]
    /\ UNCHANGED <<svc, last_run, db, clock, call, eb, ed, cu, history>>

\* one campaign of the reactivation loop
RSReactivate ==
    /\ rs.pc = "reactivate"
    /\ LET row == Head(rs.inactive_campaigns)
           c == row.campaign
           go == reset_reactivates(row.brand, HasSchedule(c), HasSchedule(c) /\ InWindow(c))
           rest == Tail(rs.inactive_campaigns)
       IN  /\ is_active' = IF go THEN [is_active EXCEPT ![c] = TRUE] ELSE is_active
           /\ rs' = [rs EXCEPT
                       !.pc = IF rest = <<>> THEN "done" ELSE "reactivate",
                       !.inactive_campaigns = rest,
                       !.reactivated_campaigns =
                           IF go THEN Append(@, <<c, row.brand.name>>) ELSE @]
    /\ UNCHANGED <<svc, last_run, current_daily_spend, current_monthly_spend, spend_logs, resaves,
                   clock, call, eb, ed, cu, history>>

\* brand.save raises in the reset loop: nothing in the task catches it
RSSaveBrandRaises ==
    /\ rs.pc = "reset"
    /\ rs.bi <= Len(BrandOrder)
    /\ rs' = [rs EXCEPT !.pc = "raised"]
    /\ UNCHANGED <<svc, last_run, db, clock, call, eb, ed, cu, history>>

\* a slip: the run ends by pausing every campaign outside its window
RSReturn_pausing ==
    /\ rs.pc \in {"done", "raised"}
    /\ rs' = RsIdle
    /\ is_active' = [c \in Campaigns |-> is_active[c] /\ (HasSchedule(c) => InWindow(c))]
    /\ pre_active' = is_active'
    /\ last_run' = "rs"
    /\ UNCHANGED <<svc, current_daily_spend, current_monthly_spend, spend_logs, resaves,
                   clock, call, eb, ed, cu, workers, log_notes>>

\* the task returns its summary, or the exception leaves it
RSReturn ==
    /\ rs.pc \in {"done", "raised"}
    /\ rs' = RsIdle
    /\ pre_active' = is_active
    /\ last_run' = "rs"
    /\ UNCHANGED <<svc, db, clock, call, eb, ed, cu, workers, log_notes>>

\* ------------------------------- tasks.check_and_update_campaign_status
\* budget_result = enforce_budgets() is entered
CUStart ==
    /\ cu.pc = "idle"
    /\ eb.pc = "idle"
    /\ ed.pc = "idle"
    /\ Admit
    /\ cu' = [pc |-> "budget"]
    /\ EbBegin
    /\ last_run' = "none"
    /\ UNCHANGED <<svc, db, clock, call, ed, rs, workers, log_notes>>

\* enforce_budgets() has returned; dayparting_result = enforce_dayparting() is entered
CUDayparting ==
    /\ cu.pc = "budget"
    /\ eb.pc = "done"
    /\ cu' = [pc |-> "dayparting", budget_result |-> eb.paused_campaigns]
    /\ eb' = EbIdle
    /\ EdBegin
    /\ UNCHANGED <<svc, last_run, db, clock, call, rs, workers, log_notes>>

\* enforce_dayparting() has returned or raised
CUFinish ==
    /\ cu.pc = "dayparting"
    /\ ed.pc \in {"done", "raised"}
    /\ cu' = [pc |-> ed.pc,
              budget_result |-> cu.budget_result,
              dayparting_result |-> <<ed.activated_campaigns, ed.deactivated_campaigns>>]
    /\ ed' = EdIdle
    /\ UNCHANGED <<svc, last_run, db, clock, call, eb, rs, history>>

\* enforce_budgets() raised: the exception leaves the composite at line 128
CUBudgetRaises ==
    /\ cu.pc = "budget"
    /\ eb.pc = "raised"
    /\ cu' = [pc |-> "raised",
              budget_result |-> <<>>,
              dayparting_result |-> <<<<>>, <<>>>>]
    /\ eb' = EbIdle
    /\ UNCHANGED <<svc, last_run, db, clock, call, ed, rs, history>>

CUReturn ==
    /\ cu.pc \in {"done", "raised"}
    /\ cu' = CuIdle
    /\ pre_active' = is_active
    /\ last_run' = "none"
    /\ UNCHANGED <<svc, db, clock, call, eb, ed, rs, workers, log_notes>>

\* ------------------------------------------------------- services.py
RECURSIVE ApplySaves(_, _)
\* the is_active column after campaign.save(update_fields=['is_active']) of
\* each instance of the list, in order
ApplySaves(flags, saves) ==
    IF saves = <<>> THEN flags
    ELSE ApplySaves([flags EXCEPT ![Head(saves).name] = Head(saves).is_active], Tail(saves))

\* a Campaign instance as loaded from its row
LoadCampaign(c) == [name |-> c, is_active |-> is_active[c]]

\* DaypartingService.is_campaign_in_dayparting_window: campaign.dayparting_schedule
\* raises DoesNotExist when the campaign has no schedule
is_campaign_in_dayparting_window(has_schedule, active_now) ==
    IF has_schedule THEN active_now ELSE TRUE

\* a slip: the dayparting reason put first
should_campaign_be_active_reordered(campaign, brand, in_window) ==
    LET blocking_reasons ==
            (IF ~in_window THEN <<"Outside dayparting window">> ELSE <<>>)
            \o (IF is_daily_budget_exceeded(brand) THEN <<"Daily budget exceeded">> ELSE <<>>)
            \o (IF is_monthly_budget_exceeded(brand) THEN <<"Monthly budget exceeded">> ELSE <<>>)
    IN  [should_be_active |-> Len(blocking_reasons) = 0,
         blocking_reasons |-> blocking_reasons,
         saves |-> <<>>]

\* a slip: the verdict stored on the campaign as it is computed
should_campaign_be_active_saving(campaign, brand, in_window) ==
    LET blocking_reasons ==
            (IF is_daily_budget_exceeded(brand) THEN <<"Daily budget exceeded">> ELSE <<>>)
            \o (IF is_monthly_budget_exceeded(brand) THEN <<"Monthly budget exceeded">> ELSE <<>>)
            \o (IF ~in_window THEN <<"Outside dayparting window">> ELSE <<>>)
    IN  [should_be_active |-> Len(blocking_reasons) = 0,
         blocking_reasons |-> blocking_reasons,
         saves |-> <<[campaign EXCEPT !.is_active = Len(blocking_reasons) = 0]>>]

\* CampaignService.should_campaign_be_active: the verdict, the reasons in the
\* order of the three appends, and the saves the function issues (none)
should_campaign_be_active(campaign, brand, in_window) ==
    LET blocking_reasons ==
            (IF is_daily_budget_exceeded(brand) THEN <<"Daily budget exceeded">> ELSE <<>>)
            \o (IF is_monthly_budget_exceeded(brand) THEN <<"Monthly budget exceeded">> ELSE <<>>)
            \o (IF ~in_window THEN <<"Outside dayparting window">> ELSE <<>>)
    IN  [should_be_active |-> Len(blocking_reasons) = 0,
         blocking_reasons |-> blocking_reasons,
         saves |-> <<>>]

\* a slip: the forced branch that leaves the save out
update_campaign_status_lazy(campaign, force_update, should_be_active, blocking_reasons) ==
    IF should_be_active = campaign.is_active
    THEN [changed |-> force_update,
          reason |-> IF force_update
                     THEN [text |-> "Status forced to",
                           detail |-> <<IF should_be_active THEN "active" ELSE "inactive">>]
                     ELSE [text |-> "No change needed", detail |-> <<>>],
          campaign |-> campaign,
          saves |-> <<>>]
    ELSE [changed |-> TRUE,
          reason |-> IF should_be_active
                     THEN [text |-> "Campaign activated (constraints cleared)", detail |-> <<>>]
                     ELSE [text |-> "Campaign paused", detail |-> blocking_reasons],
          campaign |-> [campaign EXCEPT !.is_active = should_be_active],
          saves |-> <<[campaign EXCEPT !.is_active = should_be_active]>>]

\* a slip: the no-op test left out
update_campaign_status_eager(campaign, force_update, should_be_active, blocking_reasons) ==
    LET original_status == campaign.is_active
        saved == [campaign EXCEPT !.is_active = should_be_active]
    IN  [changed |-> TRUE,
         reason |->
             IF should_be_active /\ ~original_status
             THEN [text |-> "Campaign activated (constraints cleared)", detail |-> <<>>]
             ELSE IF ~should_be_active /\ original_status
             THEN [text |-> "Campaign paused", detail |-> blocking_reasons]
             ELSE [text |-> "Status forced to",
                   detail |-> <<IF should_be_active THEN "active" ELSE "inactive">>],
         campaign |-> saved,
         saves |-> <<saved>>]

\* CampaignService.update_campaign_status, lines 147-159, given the verdict of
\* line 145: what it returns, the campaign instance as it leaves it, and the
\* saves it issues
update_campaign_status(campaign, force_update, should_be_active, blocking_reasons) ==
    IF should_be_active = campaign.is_active /\ ~force_update
    THEN [changed |-> FALSE,
          reason |-> [text |-> "No change needed", detail |-> <<>>],
          campaign |-> campaign,
          saves |-> <<>>]
    ELSE LET original_status == campaign.is_active
             saved == [campaign EXCEPT !.is_active = should_be_active]
         IN  [changed |-> TRUE,
              reason |->
                  IF should_be_active /\ ~original_status
                  THEN [text |-> "Campaign activated (constraints cleared)", detail |-> <<>>]
                  ELSE IF ~should_be_active /\ original_status
                  THEN [text |-> "Campaign paused", detail |-> blocking_reasons]
                  ELSE [text |-> "Status forced to",
                        detail |-> <<IF should_be_active THEN "active" ELSE "inactive">>],
              campaign |-> saved,
              saves |-> <<saved>>]

\* the verdict for campaign c from its brand row, its schedule and the time, as
\* they are now
Verdict(c) ==
    should_campaign_be_active(
        LoadCampaign(c), LoadBrand(brand_of[c]),
        is_campaign_in_dayparting_window(HasSchedule(c), HasSchedule(c) /\ InWindow(c)))

\* should_campaign_be_active(campaign) called on its own, for status reporting
ShouldBeActive(c) ==
    /\ svc.pc = "idle"
    /\ Admit
    /\ LET r == Verdict(c)
       IN  /\ is_active' = ApplySaves(is_active, r.saves)
           /\ svc' = [pc |-> "returned",
                      fn |-> "should_campaign_be_active",
                      campaign |-> LoadCampaign(c),
                      result |-> [should_be_active |-> r.should_be_active,
                                  blocking_reasons |-> r.blocking_reasons]]
    /\ UNCHANGED <<current_daily_spend, current_monthly_spend, spend_logs, resaves,
                   clock, call, eb, ed, rs, cu, history, last_run>>

\* a caller loads a campaign and calls update_campaign_status(campaign, force_update)
UCSCall(c, force_update) ==
    /\ svc.pc = "idle"
    /\ Admit
    /\ svc' = [pc |-> "called",
               fn |-> "update_campaign_status",
               campaign |-> LoadCampaign(c),
               force_update |-> force_update,
               again |-> last_run = c]
    /\ UNCHANGED <<db, clock, call, eb, ed, rs, cu, history, last_run>>

\* the body of update_campaign_status: the verdict, the no-op test, the save
UCSRun ==
    /\ svc.pc = "called"
    /\ LET c == svc.campaign.name
           v == Verdict(c)
           r == update_campaign_status(svc.campaign, svc.force_update,
                                       v.should_be_active, v.blocking_reasons)
       IN  /\ is_active' = ApplySaves(is_active, v.saves \o r.saves)
           /\ svc' = [pc |-> "returned",
                      fn |-> "update_campaign_status",
                      campaign |-> r.campaign,
                      force_update |-> svc.force_update,
                      again |-> svc.again,
                      original_status |-> svc.campaign.is_active,
                      verdict |-> [should_be_active |-> v.should_be_active,
                                   blocking_reasons |-> v.blocking_reasons],
                      saves |-> r.saves,
                      result |-> [changed |-> r.changed, reason |-> r.reason]]
           /\ last_run' = c
    /\ UNCHANGED <<current_daily_spend, current_monthly_spend, spend_logs, resaves,
                   clock, call, eb, ed, rs, cu, history>>

\* schedule.is_active_now() on a schedule with the given fields
IsActiveNow(start_time, end_time, tz) ==
    /\ svc.pc = "idle"
    /\ Admit
    /\ LET schedule == [start_time |-> start_time, end_time |-> end_time, timezone |-> tz]
       IN  svc' = [pc |-> "returned",
                   fn |-> "is_active_now",
                   schedule |-> schedule,
                   result |-> is_active_now(schedule, now)]
    /\ UNCHANGED <<db, clock, call, eb, ed, rs, cu, history, last_run>>

\* the caller has the return value of the status function
SvcReturn ==
    /\ svc.pc = "returned"
    /\ svc' = SvcIdle
    /\ UNCHANGED <<db, clock, call, eb, ed, rs, cu, history, last_run>>

\* ------------------------------------------------------------- the clock
\* time passes; with a single worker an operation is over within one instant
Tick ==
    /\ workers = 1 => Running = {}
    /\ now' = (now + 1) % DayLen
    /\ day' = IF now' = 0 THEN 3 - day ELSE day
    /\ last_run' = "none"
    /\ UNCHANGED <<svc, db, call, eb, ed, rs, cu, history>>

\* ------------------------------------------------------ specifications
Spend ==
    \/ \E p \in Callers, c \in Campaigns, a \in Amounts : RecordSpend(p, c, a)
    \/ \E p \in Callers : FetchBrand(p)
    \/ \E p \in Callers : SaveBrand(p)
    \/ \E i \in 1 .. MaxLogs : ResaveLog(i)

Interrupt == \E p \in Callers : Crash(p)

Budgets == EBStart \/ EBBrand \/ EBSave \/ EBReturn

Dayparting == EDStart \/ EDSchedule \/ EDReturn

Reset == RSStart \/ RSSaveBrand \/ RSQuery \/ RSReactivate \/ RSReturn

Composite == CUStart \/ CUDayparting \/ CUFinish \/ CUReturn

\* a save that the database refuses
Faults == EBSaveRaises \/ RSSaveBrandRaises \/ CUBudgetRaises

Status ==
    \/ \E c \in Campaigns : ShouldBeActive(c)
    \/ \E c \in Campaigns, force_update \in BOOLEAN : UCSCall(c, force_update)
    \/ UCSRun
    \/ SvcReturn

InitSeq == Init /\ workers = 1

InitConc == Init /\ workers > 1

\* every operation, overlapping freely, and record_spend interrupted
Next ==
    Spend \/ Interrupt \/ Budgets \/ Dayparting \/ Reset \/ Composite \/ Faults \/ Status \/ Tick

Spec == InitConc /\ [][Next]_vars

\* the spend the task specifications draw from: valid amounts, the smallest and
\* the largest, on one campaign of each brand, by one caller
SampleCampaigns == {CHOOSE c \in Campaigns : brand_of[c] = b : b \in Brands}
SampleAmounts == {1, MaxAmount}

SampleSpend ==
    \/ \E c \in SampleCampaigns, a \in SampleAmounts : RecordSpend("r1", c, a)
    \/ FetchBrand("r1")
    \/ SaveBrand("r1")

\* one operation at a time, each running to its end with nothing in between
NextSeq == SampleSpend \/ Budgets \/ Dayparting \/ Reset \/ Composite \/ Tick

SpecSeq == InitSeq /\ [][NextSeq]_vars

\* spend recording and the counter resets, from the state in which every
\* campaign is active (Campaign.is_active defaults to True), so the reset
\* finds no campaign to reactivate
InitSpend == Init /\ now = 0 /\ is_active = [c \in Campaigns |-> TRUE]

\* ... one operation at a time
NextSeqSpend == Spend \/ RSStart \/ RSSaveBrand \/ RSQuery \/ RSReturn

InitSeqSpend == InitSpend /\ workers = 1

SpecSeqSpend == InitSeqSpend /\ [][NextSeqSpend]_vars

\* ... overlapping freely, and record_spend interrupted
NextSpend == Spend \/ Interrupt \/ RSStart \/ RSSaveBrand \/ RSQuery \/ RSReturn

InitConcSpend == InitSpend /\ workers > 1

SpecSpend == InitConcSpend /\ [][NextSpend]_vars

\* enforce_dayparting overlapping with record_spend while time passes, under
\* either deployment
NextDayparting == SampleSpend \/ Dayparting \/ Tick

SpecDayparting == Init /\ [][NextDayparting]_vars

\* spend of the largest amount, on one campaign of each brand
StatusSpend ==
    \/ \E c \in SampleCampaigns : RecordSpend("r1", c, MaxAmount)
    \/ FetchBrand("r1")
    \/ SaveBrand("r1")

\* the status functions of services.py, one call at a time, between spend,
\* resets and the passing of time
NextStatus == StatusSpend \/ Reset \/ Status \/ Tick

SpecStatus == InitSeq /\ [][NextStatus]_vars

\* a spend that takes a brand to its budget at once
JobsSpend ==
    \/ \E c \in {x \in SampleCampaigns : daily_budget[brand_of[x]] <= MaxAmount} :
           RecordSpend("r1", c, MaxAmount)
    \/ FetchBrand("r1")
    \/ SaveBrand("r1")

\* the three jobs overlapping freely with each other and with spend, at an
\* instant at which one window is open and the other is closed, the campaign
\* whose window is open being inactive
InitJobs ==
    /\ InitConc
    /\ now = DayLen - 1
    /\ day = 2
    /\ is_active = [c \in Campaigns |-> ~(HasSchedule(c) /\ InWindow(c))]

NextJobs == JobsSpend \/ Budgets \/ Dayparting \/ Reset

SpecJobs == InitJobs /\ [][NextJobs]_vars

\* one operation at a time, with saves that may fail
NextFaults == NextSeq \/ Faults

SpecFaults == InitSeq /\ [][NextFaults]_vars

\* is_active_now on every schedule, at every time of day
NextWindow ==
    \/ \E start_time \in Times, end_time \in Times, tz \in Timezones :
           IsActiveNow(start_time, end_time, tz)
    \/ SvcReturn
    \/ Tick

SpecWindow == InitSeq /\ [][NextWindow]_vars

\* enforce_budgets and enforce_dayparting overlapping with spend, no reset and
\* a standing clock, at an instant at which one window is open and the other
\* is closed; the scheduler starts enforce_budgets again and again and every
\* run of it goes on to its end
InitEnforce == InitConc /\ now = DayLen - 1 /\ day = 2

NextEnforce == StatusSpend \/ Budgets \/ Dayparting

SpecEnforce == InitEnforce /\ [][NextEnforce]_vars /\ WF_vars(Budgets)

\* ------------------------------------------------------------ properties
\* the rows of the SpendLog table that belong to brand b
LogsOf(b) == {i \in DOMAIN spend_logs : brand_of[spend_logs[i].campaign] = b}

\* b's rows inserted since its daily counter was last reset, and since its monthly one
DayLogs(b) == {i \in LogsOf(b) : log_notes[i].in_day}
MonthLogs(b) == {i \in LogsOf(b) : log_notes[i].in_month}

RECURSIVE SumOfLogs(_)
\* the amounts of the rows S, added up
SumOfLogs(S) ==
    IF S = {} THEN 0
    ELSE LET i == CHOOSE j \in S : TRUE
         IN  spend_logs[i].amount + SumOfLogs(S \ {i})

RECURSIVE Weighted(_, _)
\* the same total taken from the amounts as a multiset, every amount from a up
\* times the number of rows of S that carry it: the order of the rows plays no part
Weighted(a, S) ==
    IF a > MaxAmount THEN 0
    ELSE a * Cardinality({i \in S : spend_logs[i].amount = a}) + Weighted(a + 1, S)

\* rows whose record_spend call is over without the receiver's save
Orphans ==
    {i \in DOMAIN spend_logs :
        /\ ~log_notes[i].applied
        /\ ~\E p \in Callers : call[p].pc # "idle" /\ call[p].log = i}

\* brand b is over its daily or its monthly budget, by its row as it is now
OverBudget(b) ==
    \/ current_daily_spend[b] >= daily_budget[b]
    \/ current_monthly_spend[b] >= monthly_budget[b]

\* the campaigns a task has switched off, and on, since it started
SwitchedOff == {c \in Campaigns : pre_active[c] /\ ~is_active[c]}
SwitchedOn == {c \in Campaigns : ~pre_active[c] /\ is_active[c]}

\* C1: whenever no record_spend and no reset is in progress (none was
\* interrupted, and every amount was a valid one), each brand's daily counter
\* is the sum of its logs since its last daily reset and its monthly counter
\* the sum since its last monthly reset.
C1_NoSpendLost ==
    (/\ call = [p \in Callers |-> NoCall]
     /\ rs.pc = "idle"
     /\ Orphans = {}
     /\ \A i \in DOMAIN spend_logs : spend_logs[i].amount >= 0) =>
        \A b \in Brands :
            /\ current_daily_spend[b] = SumOfLogs(DayLogs(b))
            /\ current_monthly_spend[b] = SumOfLogs(MonthLogs(b))

\* C2: with one operation at a time, after any sequence of non-negative amounts
\* recorded since the counter was zero, the daily and the monthly counter equal
\* the total of the amounts taken as a multiset, whatever their order.
C2_SumOfAmounts ==
    \A b \in Brands :
        /\ (Running = {} /\ \A i \in DayLogs(b) : spend_logs[i].amount >= 0) =>
               current_daily_spend[b] = Weighted(0, DayLogs(b))
        /\ (Running = {} /\ \A i \in MonthLogs(b) : spend_logs[i].amount >= 0) =>
               current_monthly_spend[b] = Weighted(0, MonthLogs(b))

\* C2's case: two different non-negative amounts have been recorded on one brand
C2_Witness ==
    /\ Running = {}
    /\ \E b \in Brands :
           /\ \A i \in DayLogs(b) : spend_logs[i].amount >= 0
           /\ \E i, j \in DayLogs(b) : spend_logs[i].amount # spend_logs[j].amount
           /\ current_daily_spend[b] > 0

\* C3: record_spend with a negative amount fails and appends no spend log, so
\* no row of the table carries a negative amount.
C3_NegativeRejected == \A i \in DOMAIN spend_logs : spend_logs[i].amount >= 0

\* C4: the log append and the counter increment are one unit: once a
\* record_spend call is over, interrupted or not, no log is left whose
\* (positive) amount the counters never received.
C4_AtomicUnit == \A i \in Orphans : spend_logs[i].amount <= 0

\* C5: a log's amount enters the counters once, at the receiver's save of the
\* creation; the insert itself, the brand fetch and a later save of the same
\* log (created = False) change neither counter.
C5_CountedOnce ==
    [][/\ (resaves' # resaves \/ Len(spend_logs') # Len(spend_logs)) =>
              /\ current_daily_spend' = current_daily_spend
              /\ current_monthly_spend' = current_monthly_spend
       /\ \A p \in Callers :
              (call[p].pc = "fetched" /\ call'[p].pc = "idle") =>
                  LET b == brand_of[spend_logs[call[p].log].campaign]
                      a == spend_logs[call[p].log].amount
                  IN  /\ current_daily_spend' =
                             [current_daily_spend EXCEPT ![b] = @ + a]
                      /\ current_monthly_spend' =
                             [current_monthly_spend EXCEPT ![b] = @ + a]]_vars

\* C5's case: a log that is in the counters has been saved again
C5_Witness ==
    /\ resaves > 0
    /\ \E i \in DOMAIN spend_logs : log_notes[i].applied /\ spend_logs[i].amount > 0
    /\ \E b \in Brands : current_daily_spend[b] > 0

\* C6: when enforce_budgets has run alone to its end, every campaign of an
\* over-budget brand is inactive, the flags of the other brands' campaigns are
\* as before, and the pause list is exactly the campaigns it switched off.
C6_EnforceBudgets ==
    eb.pc = "done" =>
        /\ \A c \in Campaigns :
               IF OverBudget(brand_of[c]) THEN ~is_active[c]
               ELSE is_active[c] = pre_active[c]
        /\ Range(eb.paused_campaigns) = {<<c, brand_of[c]>> : c \in SwitchedOff}
        /\ Len(eb.paused_campaigns) = Cardinality(SwitchedOff)

\* C6's case: a run has ended with campaigns paused
C6_Witness == eb.pc = "done" /\ eb.paused_campaigns # <<>>

\* a step of enforce_dayparting's loop
EdStep == ed.pc = "schedules" /\ ed' # ed

\* C7 as stated: enforce_dayparting switches a campaign on only if it has a
\* schedule, is time-eligible and its brand is under both budgets at the
\* moment of the write, also when record_spend overlaps the run.
C7_NeverOverridesBudget ==
    [][EdStep =>
          \A c \in Campaigns :
              (~is_active[c] /\ is_active'[c]) =>
                  /\ c \in Scheduled
                  /\ is_active_now(dayparting_schedule[c], now)
                  /\ ~OverBudget(brand_of[c])]_vars

\* C7 amended: enforce_dayparting switches a campaign on only if it has a
\* schedule, is time-eligible at the write, and was inactive with its brand
\* under both budgets in the rows the run loaded when it started; with one
\* operation at a time the brand is under both budgets at the write as well.
C7_ActivatesOnLoadedRows ==
    [][EdStep =>
          \A c \in Campaigns :
              (~is_active[c] /\ is_active'[c]) =>
                  LET row == Head(ed.schedules)
                  IN  /\ c \in Scheduled
                      /\ row.schedule.campaign = c
                      /\ ~row.is_active
                      /\ is_active_now(dayparting_schedule[c], now)
                      /\ row.brand.current_daily_spend < daily_budget[brand_of[c]]
                      /\ row.brand.current_monthly_spend < monthly_budget[brand_of[c]]
                      /\ workers = 1 => ~OverBudget(brand_of[c])]_vars

\* C7's case: a run has switched a campaign on
C7_Witness == ed.pc \in {"schedules", "done"} /\ ed.activated_campaigns # <<>>

\* C8: when enforce_dayparting has run alone, it has returned a summary, every
\* scheduled campaign outside its window is inactive, and the deactivated list
\* is exactly the campaigns it switched off, each with its own brand.
C8_DaypartingCompletes ==
    ed.pc \in {"done", "raised"} =>
        /\ ed.pc = "done"
        /\ \A c \in Scheduled : ~InWindow(c) => ~is_active[c]
        /\ Range(ed.deactivated_campaigns) = {<<c, brand_of[c]>> : c \in SwitchedOff}

\* C9: when reset_daily_monthly_spends has run alone to its end, a campaign
\* that was inactive before is active exactly if its brand is now under both
\* budgets and it has no schedule or is inside its window.
C9_Reactivation ==
    rs.pc = "done" =>
        \A c \in Campaigns :
            ~pre_active[c] =>
                (is_active[c] <=>
                    (~OverBudget(brand_of[c]) /\ (c \in Scheduled => InWindow(c))))

\* C9's case: a run reactivated one campaign and left another, whose brand is
\* under budget, inactive
C9_Witness ==
    /\ rs.pc = "done"
    /\ rs.reactivated_campaigns # <<>>
    /\ \E c \in Campaigns : ~pre_active[c] /\ ~is_active[c] /\ ~OverBudget(brand_of[c])

\* C10: each brand save of the reset sets the daily counter to 0, sets the
\* monthly counter to 0 on day 1, and on another day leaves the monthly counter
\* at the value it has in storage (every amount recorded being a valid one).
C10_ResetFrame ==
    [][(/\ rs.pc = "reset" /\ rs'.pc = "reset" /\ rs'.bi = rs.bi + 1
        /\ \A i \in DOMAIN spend_logs : spend_logs[i].amount >= 0) =>
          LET b == BrandOrder[rs.bi]
          IN  /\ current_daily_spend'[b] = 0
              /\ rs.today_day = 1 => current_monthly_spend'[b] = 0
              /\ rs.today_day # 1 => current_monthly_spend'[b] = current_monthly_spend[b]]_vars

\* the three blocking reasons, in the order the claim gives
BlockingReasons ==
    <<"Daily budget exceeded", "Monthly budget exceeded", "Outside dayparting window">>

\* the reason r applies to campaign c, by the rows and the time as they are now
ReasonApplies(c, r) ==
    IF r = "Daily budget exceeded"
    THEN current_daily_spend[brand_of[c]] >= daily_budget[brand_of[c]]
    ELSE IF r = "Monthly budget exceeded"
    THEN current_monthly_spend[brand_of[c]] >= monthly_budget[brand_of[c]]
    ELSE c \in Scheduled /\ ~is_active_now(dayparting_schedule[c], now)

\* the subsequence of the three reasons that apply to c
ReasonsFor(c) ==
    LET Applies(r) == ReasonApplies(c, r)
    IN  SelectSeq(BlockingReasons, Applies)

\* a call of should_campaign_be_active on its own returns in this step
ShouldBeActiveStep ==
    svc.pc = "idle" /\ svc'.pc = "returned" /\ svc'.fn = "should_campaign_be_active"

\* the body of update_campaign_status runs in this step
UpdateStep == svc.pc = "called" /\ svc'.pc = "returned"

\* C11: should_campaign_be_active returns the subsequence of [daily, monthly,
\* dayparting] of the reasons that apply (daily iff daily spend >= daily
\* budget, monthly iff monthly spend >= monthly budget, dayparting iff the
\* campaign has a schedule that is not active now), and the verdict is true
\* iff that list is empty; update_campaign_status computes the same verdict.
C11_ReasonList ==
    [][/\ ShouldBeActiveStep =>
              /\ svc'.result.blocking_reasons = ReasonsFor(svc'.campaign.name)
              /\ svc'.result.should_be_active = (ReasonsFor(svc'.campaign.name) = <<>>)
       /\ UpdateStep =>
              /\ svc'.verdict.blocking_reasons = ReasonsFor(svc.campaign.name)
              /\ svc'.verdict.should_be_active = (ReasonsFor(svc.campaign.name) = <<>>)]_vars

\* C11's case: a call has returned all three reasons, the daily one at equality
C11_Witness ==
    /\ svc.pc = "returned"
    /\ svc.fn = "should_campaign_be_active"
    /\ svc.result.blocking_reasons = BlockingReasons
    /\ ~svc.result.should_be_active
    /\ current_daily_spend[brand_of[svc.campaign.name]] = daily_budget[brand_of[svc.campaign.name]]

\* C12: when update_campaign_status does not take the no-op path (the verdict
\* differs from is_active, or force_update is true) it saves the flag exactly
\* once, is_active is the verdict afterwards, it returns changed = true, and
\* the explanation is "activated" iff the flag went from inactive to active,
\* "paused" with the blocking reasons iff it went from active to inactive, and
\* "forced to X" iff the flag's value did not change.
C12_UpdateWrites ==
    [][UpdateStep =>
          LET c == svc.campaign.name
              verdict == svc'.verdict.should_be_active
              text == svc'.result.reason.text
              detail == svc'.result.reason.detail
          IN  (verdict # is_active[c] \/ svc.force_update) =>
                  /\ Len(svc'.saves) = 1
                  /\ is_active' = [is_active EXCEPT ![c] = verdict]
                  /\ svc'.campaign.is_active = verdict
                  /\ svc'.result.changed
                  /\ (text = "Campaign activated (constraints cleared)")
                         <=> (~is_active[c] /\ is_active'[c])
                  /\ (text = "Campaign paused") <=> (is_active[c] /\ ~is_active'[c])
                  /\ (text = "Campaign paused") => detail = ReasonsFor(c)
                  /\ (text = "Status forced to") <=> (is_active'[c] = is_active[c])
                  /\ (text = "Status forced to") =>
                         detail = <<IF is_active'[c] THEN "active" ELSE "inactive">>]_vars

\* C12's case: each of the three explanations has been returned: here the
\* forced one, on a campaign that was already as the verdict says
C12_Witness ==
    /\ svc.pc = "returned"
    /\ svc.fn = "update_campaign_status"
    /\ svc.force_update
    /\ svc.result.changed
    /\ svc.result.reason.text = "Status forced to"
    /\ svc.original_status = svc.verdict.should_be_active

\* C13: update_campaign_status without force on a campaign whose is_active is
\* already the verdict returns changed = false and saves nothing; and a call
\* without force that comes right after a call on the same campaign, with no
\* spend recorded and no time passed in between, returns changed = false.
C13_NoOp ==
    [][UpdateStep =>
          LET c == svc.campaign.name
          IN  /\ (~svc.force_update /\ is_active[c] = svc'.verdict.should_be_active) =>
                     /\ ~svc'.result.changed
                     /\ svc'.saves = <<>>
                     /\ is_active' = is_active
              /\ (~svc.force_update /\ svc.again) => ~svc'.result.changed]_vars

\* C13's case: a second call without force, right after a call on the same
\* campaign, has returned
C13_Witness ==
    /\ svc.pc = "returned"
    /\ svc.fn = "update_campaign_status"
    /\ svc.again
    /\ ~svc.force_update
    /\ ~svc.result.changed
    /\ svc.result.reason.text = "No change needed"

\* the campaigns named in a list of (campaign, brand) entries
NamedIn(entries) == {entries[i][1] : i \in DOMAIN entries}

\* C14: check_and_update_campaign_status runs enforce_budgets to its end before
\* enforce_dayparting starts: a campaign that was active, over budget and
\* outside its window is inactive and in the budget pause list when the budget
\* step returns, and no campaign of the budget pause list is in the dayparting
\* deactivated list of the same run.
C14_BudgetFirst ==
    [][/\ (cu.pc # "idle" /\ ed.pc # "idle") => eb.pc = "idle"
       /\ (cu.pc = "budget" /\ cu'.pc = "dayparting") =>
              /\ eb.pc = "done"
              /\ \A c \in Scheduled :
                     (pre_active[c] /\ OverBudget(brand_of[c]) /\ ~InWindow(c)) =>
                         /\ ~is_active[c]
                         /\ <<c, brand_of[c]>> \in Range(cu'.budget_result)
       /\ (cu.pc = "dayparting" /\ cu'.pc \in {"done", "raised"}) =>
              NamedIn(cu'.budget_result) \cap NamedIn(cu'.dayparting_result[2]) = {}]_vars

\* C14's case: a run is over in which the budget step paused a campaign that
\* is outside its window
C14_Witness ==
    /\ cu.pc = "done"
    /\ \E c \in Scheduled :
           /\ ~InWindow(c)
           /\ OverBudget(brand_of[c])
           /\ c \in NamedIn(cu.budget_result)
           /\ c \notin NamedIn(cu.dayparting_result[2])

\* a second run of enforce_budgets changed nothing and paused nothing
EbSecondRunIdle ==
    (eb.pc = "done" /\ eb.again) =>
        is_active = pre_active /\ eb.paused_campaigns = <<>>

\* a second run of reset_daily_monthly_spends changed nothing and reactivated nothing
RsSecondRunIdle ==
    (rs.pc = "done" /\ rs.again) =>
        /\ is_active = pre_active
        /\ rs.reactivated_campaigns = <<>>
        /\ \A b \in Brands :
               /\ current_daily_spend[b] = rs.brands[b].current_daily_spend
               /\ current_monthly_spend[b] = rs.brands[b].current_monthly_spend

\* a second run of enforce_dayparting changed nothing and listed nothing
EdSecondRunIdle ==
    (ed.pc \in {"done", "raised"} /\ ed.again) =>
        /\ is_active = pre_active
        /\ ed.activated_campaigns = <<>>
        /\ ed.deactivated_campaigns = <<>>

\* C15: each of the three jobs is idempotent: a run that follows a run of the
\* same job, with no spend recorded, no time passed and no other job in
\* between, changes no is_active flag and no counter and reports empty lists.
C15_Idempotent == EbSecondRunIdle /\ RsSecondRunIdle /\ EdSecondRunIdle

\* the writes of is_active a job has decided on and not made yet, as
\* (campaign, value): enforce_budgets pauses what its query returned,
EbPending ==
    IF eb.pc = "campaigns" THEN {<<c, FALSE>> : c \in Range(eb.active_campaigns)} ELSE {}

\* reset_daily_monthly_spends reactivates the rows that pass its two tests,
RsPending ==
    IF rs.pc = "reactivate"
    THEN {<<row.campaign, TRUE>> : row \in
             {r \in Range(rs.inactive_campaigns) :
                 reset_reactivates(r.brand, HasSchedule(r.campaign),
                                   HasSchedule(r.campaign) /\ InWindow(r.campaign))}}
    ELSE {}

\* enforce_dayparting switches the rows its two branches select
EdPending ==
    IF ed.pc = "schedules"
    THEN {<<row.schedule.campaign, ~row.is_active>> : row \in
             {r \in Range(ed.schedules) :
                 dayparting_decision(is_active_now(r.schedule, now), r.is_active, r.brand)
                     # "none"}}
    ELSE {}

\* the write the job makes in this step, as a set of (campaign, value)
EbWrites == IF eb.pc = "campaigns" /\ eb' # eb THEN {<<Head(eb.active_campaigns), FALSE>>} ELSE {}
RsWrites == IF rs.pc = "reactivate" /\ rs' # rs THEN {Head(rs.inactive_campaigns)} ELSE {}
EdWrites == IF ed.pc = "schedules" /\ ed' # ed THEN {Head(ed.schedules)} ELSE {}

\* C16: the writes of is_active are compare-and-set on the value the job read:
\* while another job holds the opposite verdict for the same campaign, a job's
\* write is made only if the stored flag still has the value the job read (the
\* opposite of what it writes), so the two writes are not both committed.
C16_CompareAndSet ==
    [][/\ \A w \in EbWrites :
              <<w[1], ~w[2]>> \in (RsPending \cup EdPending) => is_active[w[1]] = ~w[2]
       /\ \A row \in RsWrites :
              (<<row.campaign, TRUE>> \in RsPending
                   /\ <<row.campaign, FALSE>> \in (EbPending \cup EdPending)) =>
                  ~is_active[row.campaign]
       /\ \A row \in EdWrites :
              LET c == row.schedule.campaign
              IN  (<<c, ~row.is_active>> \in EdPending
                       /\ <<c, row.is_active>> \in (EbPending \cup RsPending)) =>
                      is_active[c] = row.is_active]_vars

\* C17: a failure while a batch job processes one brand or campaign (its save
\* raising) is isolated: the job does not end with the exception, it goes on
\* to the end of its loop over the brands and returns its summary.
C17_FailureIsolated ==
    /\ eb.pc \in {"done", "raised"} => (eb.pc = "done" /\ eb.bi > Len(BrandOrder))
    /\ rs.pc \in {"done", "raised"} => (rs.pc = "done" /\ rs.bi > Len(BrandOrder))

\* a call of is_active_now returns in this step
WindowStep == svc.pc = "idle" /\ svc'.pc = "returned" /\ svc'.fn = "is_active_now"

\* the time of day t is inside the window from start_time to end_time, both
\* ends included, as the claim defines it
InsideWindow(start_time, end_time, t) ==
    \/ start_time <= end_time /\ start_time <= t /\ t <= end_time
    \/ start_time > end_time /\ (t >= start_time \/ t <= end_time)

\* C18: for every start, end and time of day t, is_active_now is true iff
\* (start <= end and start <= t <= end) or (start > end and (t >= start or
\* t <= end)); with start = end the window is the one instant t = start.
C18_WindowShape ==
    [][WindowStep =>
          LET sch == svc'.schedule
          IN  /\ svc'.result <=> InsideWindow(sch.start_time, sch.end_time, now)
              /\ sch.start_time = sch.end_time => (svc'.result <=> now = sch.start_time)]_vars

\* C18's case: a single-instant window has been found active at its instant
C18_Witness ==
    /\ svc.pc = "returned"
    /\ svc.fn = "is_active_now"
    /\ svc.schedule.start_time = svc.schedule.end_time
    /\ now = svc.schedule.start_time
    /\ svc.result

\* C19: is_active_now tests the window against the time of day in the
\* schedule's own timezone: the result is that of the wall clock of
\* schedule.timezone, not of one clock shared by all schedules.
C19_LocalTime ==
    [][WindowStep =>
          LET sch == svc'.schedule
              local == (now + utcoffset[sch.timezone]) % DayLen
          IN  svc'.result <=> InsideWindow(sch.start_time, sch.end_time, local)]_vars

\* C20: should_campaign_be_active is read-only: a call, in any state and as
\* often as it is made, changes no is_active flag, no brand counter and no
\* spend log (the schedules are never written by any operation).
C20_ReadOnly ==
    [][ShouldBeActiveStep =>
          /\ is_active' = is_active
          /\ current_daily_spend' = current_daily_spend
          /\ current_monthly_spend' = current_monthly_spend
          /\ spend_logs' = spend_logs
          /\ resaves' = resaves]_vars

\* C20's case: a call has returned a verdict that differs from the stored flag,
\* on a brand with spend logged, and the flag is as it was
C20_Witness ==
    /\ svc.pc = "returned"
    /\ svc.fn = "should_campaign_be_active"
    /\ svc.result.should_be_active # svc.campaign.is_active
    /\ is_active[svc.campaign.name] = svc.campaign.is_active
    /\ LogsOf(brand_of[svc.campaign.name]) # {}

\* C21: within one run of reset_daily_monthly_spends every brand's reset is
\* written before the reactivation pass reads a brand: the pass begins only
\* when the reset loop is over, and each campaign is tested against its
\* brand's row as stored after the resets (daily counter 0, monthly counter 0
\* on day 1), never against the row as it was before.
C21_ResetBeforeReactivation ==
    [][/\ rs'.pc = "reactivate" => rs'.bi > Len(BrandOrder)
       /\ (rs.pc = "reactivate" /\ rs' # rs) =>
              LET row == Head(rs.inactive_campaigns)
              IN  /\ row.brand = LoadBrand(brand_of[row.campaign])
                  /\ row.brand.current_daily_spend = 0
                  /\ rs.today_day = 1 => row.brand.current_monthly_spend = 0]_vars

\* C21's case: a run has reactivated a campaign whose brand was over budget in
\* the rows as they were before the reset
C21_Witness ==
    /\ rs.pc \in {"reactivate", "done"}
    /\ \E i \in DOMAIN rs.reactivated_campaigns :
           budget_exceeded(rs.brands[rs.reactivated_campaigns[i][2]])

\* every campaign of brand b is inactive
AllInactive(b) == \A c \in Campaigns : brand_of[c] = b => ~is_active[c]

\* a run of enforce_budgets that loaded c's brand over budget, so started after
\* the exceeding spend was committed, has gone through all its brands
EnforcedFor(c) == eb.pc = "done" /\ budget_exceeded(eb.brands[brand_of[c]])

\* once a brand is over budget (it stays so: no reset), its campaigns are
\* eventually all inactive
EventuallyPaused == \A b \in Brands : OverBudget(b) ~> AllInactive(b)

\* C22 as stated: once a brand is over budget its campaigns eventually are all
\* inactive, and after a run of enforce_budgets that started after the
\* exceeding spend was committed, no job sets one of them active again.
C22_EventuallyEnforced ==
    /\ EventuallyPaused
    /\ [][\A c \in Campaigns : EnforcedFor(c) => ~(~is_active[c] /\ is_active'[c])]_vars

\* C22 amended: once a brand is over budget its campaigns eventually are all
\* inactive; after a run of enforce_budgets that started after the exceeding
\* spend was committed, a campaign of the brand is set active again only by a
\* run of enforce_dayparting that loaded the brand's row under budget, before
\* that spend was committed.
C22_EnforcedButForStaleRows ==
    /\ EventuallyPaused
    /\ [][\A c \in Campaigns :
              (EnforcedFor(c) /\ ~is_active[c] /\ is_active'[c]) =>
                  /\ EdStep
                  /\ Head(ed.schedules).schedule.campaign = c
                  /\ ~budget_exceeded(Head(ed.schedules).brand)]_vars

\* C22's case: a run of enforce_budgets that loaded a brand over budget has
\* paused campaigns, and all the brand's campaigns are inactive
C22_Witness ==
    /\ eb.pc = "done"
    /\ eb.paused_campaigns # <<>>
    /\ \E b \in Brands :
           /\ budget_exceeded(eb.brands[b])
           /\ OverBudget(b)
           /\ AllInactive(b)

\* C23: when check_and_update_campaign_status has run to its end with no other
\* operation alongside, every active campaign has a true verdict from
\* should_campaign_be_active: its brand is under both budgets and, if it has a
\* schedule, the time is inside its window.
C23_ActiveImpliesVerdict ==
    cu.pc = "done" =>
        \A c \in Campaigns :
            is_active[c] =>
                /\ Verdict(c).should_be_active
                /\ ~OverBudget(brand_of[c])
                /\ c \in Scheduled => InWindow(c)

\* C23's case: a run is over that paused a campaign for its budget and left
\* another campaign active
C23_Witness ==
    /\ cu.pc = "done"
    /\ cu.budget_result # <<>>
    /\ \E c \in Campaigns : is_active[c]

\* C24: enforce_budgets never changes a campaign from inactive to active, and
\* enforce_dayparting never changes the flag of a campaign without a schedule;
\* so no step of record_spend, enforce_budgets, enforce_dayparting or
\* check_and_update_campaign_status activates an inactive campaign that has no
\* schedule: only a step of reset_daily_monthly_spends' reactivation pass or
\* of update_campaign_status does.
C24_OnlyResetActivates ==
    [][/\ eb' # eb => \A c \in Campaigns : ~(~is_active[c] /\ is_active'[c])
       /\ ed' # ed => \A c \in Campaigns \ Scheduled : is_active'[c] = is_active[c]
       /\ \A c \in Campaigns \ Scheduled :
              (~is_active[c] /\ is_active'[c]) =>
                  \/ rs.pc = "reactivate" /\ rs' # rs
                  \/ UpdateStep]_vars

\* C24's case: the composite has run to its end and left inactive a campaign
\* without a schedule whose brand, with spend logged, is under both budgets
C24_Witness ==
    /\ cu.pc = "done"
    /\ \E c \in Campaigns \ Scheduled :
           /\ ~is_active[c]
           /\ ~pre_active[c]
           /\ ~OverBudget(brand_of[c])
           /\ LogsOf(brand_of[c]) # {}

\* C25: reset_daily_monthly_spends never deactivates: no step of a run turns
\* an active campaign inactive, and at the end of a run every campaign that
\* was active before it is active, also one outside its window or one whose
\* brand is still over its monthly budget after a reset on another day than
\* the first.
C25_ResetNeverDeactivates ==
    [][/\ rs' # rs => \A c \in Campaigns : is_active[c] => is_active'[c]
       /\ rs.pc = "done" => \A c \in Campaigns : pre_active[c] => is_active[c]]_vars

\* C25's case: a run on another day than the first is over, and it left active
\* a campaign outside its window and a campaign whose brand is over its
\* monthly budget
C25_Witness ==
    /\ rs.pc = "done"
    /\ rs.today_day # 1
    /\ \E c \in Scheduled : pre_active[c] /\ is_active[c] /\ ~InWindow(c)
    /\ \E c \in Campaigns :
           /\ pre_active[c]
           /\ is_active[c]
           /\ current_monthly_spend[brand_of[c]] >= monthly_budget[brand_of[c]]
====
